---- MODULE Spec2Model ----
(***************************************************************************)
(* Model of the EventSub websocket client of conn.go: the read loop of     *)
(* ConnectWithContext, the two-level dispatch of handleMessage and         *)
(* handleNotification, the reconnect handoff goroutine of reconnect, and   *)
(* Close.  The client takes no lock: the read loop, every handoff          *)
(* goroutine and a Close call made from a handler goroutine interleave     *)
(* statement by statement on the shared fields ws, connected and           *)
(* reconnecting.                                                           *)
(***************************************************************************)
EXTENDS Integers, Sequences, FiniteSets, TLC

VARIABLES
    Address,       \* Client.Address: 0 is the url given at construction, n > 0 the n-th reconnect url
    ws,            \* Client.ws: Nil or the id of a transport
    connected,     \* Client.connected
    ctx,           \* Client.ctx: "nil" or "ctx"
    reconnecting,  \* Client.reconnecting
    reg,           \* the callback fields: TRUE when the field is non-nil
    tr,            \* every transport's status
    rd,            \* every transport's number of frames read so far
    canceled,      \* the context given to ConnectWithContext is cancelled
    pc,            \* where the goroutine running ConnectWithContext is
    rt,            \* the transport that goroutine's Read was issued on
    data,          \* the frame the loop is handling
    cur,           \* that frame's identity: transport and index on it
    result,        \* what ConnectWithContext returned
    nread,         \* frames read by the loop so far
    hpc,           \* where each handoff goroutine is (indexed by the transport it dialed)
    hdata,         \* the first frame each handoff goroutine read
    cpc,           \* where the goroutine running Close is
    ncloses,       \* calls of Close so far
    closeAt,       \* when Close was last called: the loop's phase, whether a handler had been
                   \* started, whether a handoff was pending
    started,       \* handler invocations, in the order they were made
    errs,          \* reports given to the error sink: by the loop (0), by each handoff goroutine
    crash          \* "none", or the panic that ended the process

vars == <<Address, ws, connected, ctx, reconnecting, reg, tr, rd, canceled, pc, rt,
          data, cur, result, nread, hpc, hdata, cpc, ncloses, closeAt,
          started, errs, crash>>

(***************************************************************************)
(* Bounds.                                                                 *)
(***************************************************************************)
MaxTransports == 3
MaxFrames == 2
MaxCloses == 1
DispatchFrames == 1

Nil == 0
Transports == 1..MaxTransports

(***************************************************************************)
(* Wire data.                                                              *)
(***************************************************************************)
\* messageTypeMap: discriminant -> the message variant it decodes into
messageTypeMap ==
    [m \in {"session_welcome", "session_keepalive", "notification",
            "session_reconnect", "revocation"} |->
        CASE m = "session_welcome" -> "WelcomeMessage"
          [] m = "session_keepalive" -> "KeepAliveMessage"
          [] m = "notification" -> "NotificationMessage"
          [] m = "session_reconnect" -> "ReconnectMessage"
          [] m = "revocation" -> "RevokeMessage"]

\* subMetadata: subscription type -> its EventGen ("nil" when it has none)
subMetadata ==
    [s \in {"channel.update", "channel.follow", "untyped.subscription"} |->
        CASE s = "channel.update" -> [EventGen |-> "EventChannelUpdate"]
          [] s = "channel.follow" -> [EventGen |-> "EventChannelFollow"]
          [] s = "untyped.subscription" -> [EventGen |-> "nil"]]

\* the callback fields of Client
MessageHandlers == {"onWelcome", "onKeepAlive", "onNotification", "onReconnect", "onRevoke"}
EventHandlers == {"onEventChannelUpdate", "onEventChannelFollow"}
HandlerNames == {"onError", "onRawEvent"} \cup MessageHandlers \cup EventHandlers

\* the event bytes a notification carries: none, a value of the subscription's
\* shape, or a value that does not decode into it
EventBytes == {"absent", "valid", "invalid"}

NoClose == [phase |-> "none", handler |-> FALSE, handoff |-> FALSE, connected |-> FALSE]
NoCur == [tr |-> Nil, idx |-> 0]
NoFrame == [parse |-> FALSE, mtype |-> "none", payload |-> FALSE, sub |-> "", event |-> ""]
Malformed == [parse |-> FALSE, mtype |-> "", payload |-> FALSE, sub |-> "", event |-> ""]
Plain(m, ok) == [parse |-> TRUE, mtype |-> m, payload |-> ok, sub |-> "", event |-> ""]
Notif(s, e) == [parse |-> TRUE, mtype |-> "notification", payload |-> TRUE, sub |-> s, event |-> e]

SubTypes == DOMAIN subMetadata \cup {"unmapped.subscription"}

\* every kind of frame a server can put on the wire
AllFrames ==
    {Malformed}
    \cup {Plain(m, ok) : m \in DOMAIN messageTypeMap \cup {"bogus_type"}, ok \in BOOLEAN}
    \cup {Notif(s, e) : s \in SubTypes, e \in EventBytes}

\* the frames of the connection-lifecycle specification
LifeFrames ==
    {Plain("session_welcome", TRUE), Plain("session_reconnect", TRUE)}

\* the first frames a reconnect target can send
FirstFrames == {Plain("session_welcome", TRUE), Plain("session_keepalive", TRUE), Malformed}

(***************************************************************************)
(* Pure steps of decoding and dispatch.                                    *)
(***************************************************************************)
\* parseBaseMessage: the discriminant, or an error
parseBaseMessage(f) ==
    IF f.parse THEN [err |-> "nil", MessageType |-> f.mtype]
    ELSE [err |-> "could not unmarshal basemessage", MessageType |-> ""]

\* json.RawMessage.MarshalJSON of the notification's event field
MarshalJSON(e) == IF e = "absent" THEN "null" ELSE e

\* json.Unmarshal of event bytes into a typed event: "null" leaves the zero value
UnmarshalOk(bytes) == bytes \in {"valid", "null"}

\* callFunc: one handler goroutine when the callback is set
callFunc(r, h, id) ==
    IF r[h] THEN <<[h |-> h, tr |-> id.tr, idx |-> id.idx, arg |-> ""]>> ELSE <<>>

\* a type switch whose KeepAliveMessage case calls the Revoke callback
HandlerOf_WrongCase(variant) ==
    CASE variant = "WelcomeMessage" -> "onWelcome"
      [] variant = "KeepAliveMessage" -> "onRevoke"
      [] variant = "NotificationMessage" -> "onNotification"
      [] variant = "ReconnectMessage" -> "onReconnect"
      [] variant = "RevokeMessage" -> "onRevoke"

\* the message-kind callback of a decoded variant (the type switch of handleMessage)
HandlerOf(variant) ==
    CASE variant = "WelcomeMessage" -> "onWelcome"
      [] variant = "KeepAliveMessage" -> "onKeepAlive"
      [] variant = "NotificationMessage" -> "onNotification"
      [] variant = "ReconnectMessage" -> "onReconnect"
      [] variant = "RevokeMessage" -> "onRevoke"

\* the typed callback of a decoded event (the type switch of handleNotification)
EventHandlerOf(gen) ==
    CASE gen = "EventChannelUpdate" -> "onEventChannelUpdate"
      [] gen = "EventChannelFollow" -> "onEventChannelFollow"


\* metadata, ok := subMetadata[subscription.Type]: the zero value when absent
subLookup(s) ==
    IF s \in DOMAIN subMetadata
    THEN [ok |-> TRUE, metadata |-> subMetadata[s]]
    ELSE [ok |-> FALSE, metadata |-> [EventGen |-> "nil"]]

\* the first half of handleNotification: the lookup of the subscription type
handleNotificationLookup(f) ==
    IF subLookup(f.sub).ok THEN "nil" ELSE "unknown subscription type"

\* a hook called only for a subscription type that has a typed decode target
rawEventCall_TypedOnly(f, id) ==
    IF subLookup(f.sub).metadata.EventGen = "nil" THEN <<>>
    ELSE <<[h |-> "onRawEvent", tr |-> id.tr, idx |-> id.idx, arg |-> MarshalJSON(f.event)]>>

\* the call of the raw-event hook, with string(data) of the event's bytes
rawEventCall(f, id) ==
    <<[h |-> "onRawEvent", tr |-> id.tr, idx |-> id.idx, arg |-> MarshalJSON(f.event)]>>

\* the second half of handleNotification, after the raw-event hook: the typed
\* decode and the type switch.  starts: the handler goroutines started; err: the
\* error returned; sink: what it gives to c.onError itself (the default branch)
handleNotificationTyped(f, r, id) ==
    LET bytes == MarshalJSON(f.event)
        gen == subLookup(f.sub).metadata.EventGen
    IN  IF gen # "nil" /\ ~UnmarshalOk(bytes)
        THEN [starts |-> <<>>, err |-> "could not unmarshal event", sink |-> <<>>]
        ELSE IF gen = "nil"
        THEN [starts |-> <<>>, err |-> "nil", sink |-> <<"unknown event type">>]
        ELSE [starts |-> callFunc(r, EventHandlerOf(gen), id), err |-> "nil", sink |-> <<>>]

\* handleMessage up to the point where it returns, dials, or enters the
\* notification router.  then: "return", "reconnect" or "router"
handleMessage(f, r, id) ==
    LET metadata == parseBaseMessage(f)
    IN  IF metadata.err # "nil"
        THEN [starts |-> <<>>, err |-> metadata.err, then |-> "return"]
        ELSE IF metadata.MessageType \notin DOMAIN messageTypeMap
        THEN [starts |-> <<>>, err |-> "unknown message type", then |-> "return"]
        ELSE IF ~f.payload
        THEN [starts |-> <<>>, err |-> "could not unmarshal message", then |-> "return"]
        ELSE LET msg == messageTypeMap[metadata.MessageType]
             IN  CASE msg = "NotificationMessage" ->
                        IF handleNotificationLookup(f) # "nil"
                        THEN [starts |-> callFunc(r, HandlerOf(msg), id),
                              err |-> handleNotificationLookup(f), then |-> "return"]
                        ELSE [starts |-> callFunc(r, HandlerOf(msg), id),
                              err |-> "nil", then |-> "router"]
                   [] msg = "ReconnectMessage" ->
                        [starts |-> callFunc(r, HandlerOf(msg), id),
                         err |-> "nil", then |-> "reconnect"]
                   [] OTHER ->
                        [starts |-> callFunc(r, HandlerOf(msg), id),
                         err |-> "nil", then |-> "return"]

(***************************************************************************)
(* Transports.                                                             *)
(***************************************************************************)
Dialed == {t \in Transports : tr[t] # "none"}
NextTransport == Cardinality(Dialed) + 1

\* websocket.Conn.Close(StatusNormalClosure, ...) on transport x
CloseTr(trf, x) == IF trf[x] = "open" THEN [trf EXCEPT ![x] = "closed"] ELSE trf

\* the errors a Read on transport t can return now
ReadErrors(t) ==
    (IF canceled THEN {"canceled"} ELSE {})
    \cup (IF tr[t] \in {"closed", "rclosed"} THEN {"normal closure"} ELSE {})
    \cup (IF tr[t] = "failed" THEN {"abnormal"} ELSE {})

\* the handoff goroutines that have dialed and have not yet been received by the loop
Pending == {t \in Transports : hpc[t] \in {"read", "setflag", "closeold", "swap", "send"}}

(***************************************************************************)
(* The state after NewClientWithUrl: no transport, no callback but the     *)
(* default error sink.                                                     *)
(***************************************************************************)
Init ==
    /\ Address = 0
    /\ ws = Nil
    /\ connected = FALSE
    /\ ctx = "nil"
    /\ reconnecting = FALSE
    /\ reg = [h \in HandlerNames |-> h = "onError"]
    /\ tr = [t \in Transports |-> "none"]
    /\ rd = [t \in Transports |-> 0]
    /\ canceled = FALSE
    /\ pc = "idle"
    /\ rt = Nil
    /\ data = NoFrame
    /\ cur = NoCur
    /\ result = "none"
    /\ nread = 0
    /\ hpc = [t \in Transports |-> "none"]
    /\ hdata = [t \in Transports |-> NoFrame]
    /\ cpc = "idle"
    /\ ncloses = 0
    /\ closeAt = NoClose
    /\ started = <<>>
    /\ errs = [t \in {0} \cup Transports |-> <<>>]
    /\ crash = "none"

Alive == crash = "none"

\* what no step of the client changes
envUnchanged == UNCHANGED <<canceled, ncloses, closeAt>>

(***************************************************************************)
(* The registration surface: OnError, OnWelcome, ... (called before        *)
(* ConnectWithContext).                                                    *)
(***************************************************************************)
Setter(h, v) ==
    /\ Alive
    /\ pc = "idle"
    /\ reg[h] # v
    /\ reg' = [reg EXCEPT ![h] = v]
    /\ UNCHANGED <<Address, ws, connected, ctx, reconnecting, tr, rd, canceled, pc, rt,
                   data, cur, result, nread, hpc, hdata, cpc, ncloses, closeAt,
                   started, errs, crash>>

(***************************************************************************)
(* ConnectWithContext up to the loop: the check of onWelcome, then the     *)
(* dial.                                                                   *)
(***************************************************************************)
\* a connect that does not check the Welcome callback
ConnectGuard_Missing == TRUE

\* line 125
ConnectGuard == reg["onWelcome"]

Connect ==
    /\ Alive
    /\ pc = "idle"
    /\ IF ~ConnectGuard
       THEN /\ pc' = "returned"
            /\ result' = "ErrNilOnWelcome"
            /\ UNCHANGED <<ctx, tr, ws, connected>>
       ELSE /\ ctx' = "ctx"
            /\ \/ /\ ~canceled
                  /\ NextTransport \in Transports
                  /\ tr' = [tr EXCEPT ![NextTransport] = "open"]
                  /\ ws' = NextTransport
                  /\ connected' = TRUE
                  /\ pc' = "loop"
                  /\ result' = "none"
               \/ /\ pc' = "returned"
                  /\ result' = "could not dial"
                  /\ UNCHANGED <<tr, ws, connected>>
    /\ UNCHANGED <<Address, reconnecting, reg, rd, canceled, rt, data, cur, nread, hpc,
                   hdata, cpc, ncloses, closeAt, started, errs, crash>>

(***************************************************************************)
(* The read loop.                                                          *)
(***************************************************************************)
\* c.ws.Read(ctx) is entered: c.ws is evaluated now
LoopBeginRead ==
    /\ Alive
    /\ pc = "loop"
    /\ IF ws = Nil
       THEN /\ crash' = "loop read on nil ws"
            /\ pc' = "panic"
            /\ rt' = rt
       ELSE /\ pc' = "read"
            /\ rt' = ws
            /\ crash' = crash
    /\ UNCHANGED <<Address, ws, connected, ctx, reconnecting, reg, tr, rd, data, cur,
                   result, nread, hpc, hdata, cpc, started, errs>>
    /\ envUnchanged

\* the Read returns a frame
LoopReadFrame(F, max) ==
    /\ Alive
    /\ pc = "read"
    /\ tr[rt] = "open"
    /\ ~canceled
    /\ nread < max
    /\ \E f \in F : data' = f
    /\ cur' = [tr |-> rt, idx |-> rd[rt] + 1]
    /\ rd' = [rd EXCEPT ![rt] = @ + 1]
    /\ nread' = nread + 1
    /\ pc' = "handle"
    /\ rt' = Nil
    /\ UNCHANGED <<Address, ws, connected, ctx, reconnecting, reg, tr, result, hpc,
                   hdata, cpc, started, errs, crash>>
    /\ envUnchanged

\* the Read returns an error: lines 139-154
LoopReadError ==
    /\ Alive
    /\ pc = "read"
    /\ \E e \in ReadErrors(rt) :
        CASE e = "canceled" ->
                /\ pc' = "returned"
                /\ result' = "nil"
                /\ UNCHANGED reconnecting
          [] e = "normal closure" ->
                IF reconnecting
                THEN /\ reconnecting' = FALSE
                     /\ pc' = "wait"
                     /\ UNCHANGED result
                ELSE /\ pc' = "returned"
                     /\ result' = "nil"
                     /\ UNCHANGED reconnecting
          [] OTHER ->
                /\ pc' = "returned"
                /\ result' = "could not read message"
                /\ UNCHANGED reconnecting
    /\ rt' = Nil
    /\ UNCHANGED <<Address, ws, connected, ctx, reg, tr, rd, data, cur, nread, hpc,
                   hdata, cpc, started, errs, crash>>
    /\ envUnchanged

\* <-c.reconnected meets the send of handoff goroutine t
LoopRecv(t) ==
    /\ Alive
    /\ pc = "wait"
    /\ hpc[t] = "send"
    /\ pc' = "loop"
    /\ hpc' = [hpc EXCEPT ![t] = "done"]
    /\ UNCHANGED <<Address, ws, connected, ctx, reconnecting, reg, tr, rd, rt, data, cur,
                   result, nread, hdata, cpc, started, errs, crash>>
    /\ envUnchanged

\* a loop whose handlers start ahead of those of the frames read before
Finish_Reordered(starts, sink) ==
    /\ started' = starts \o started
    /\ data' = NoFrame
    /\ cur' = NoCur
    /\ pc' = "loop"
    /\ errs' = [errs EXCEPT ![0] = @ \o sink]
    /\ UNCHANGED crash

\* the end of one frame's handling: the handlers started, and what goes to
\* c.onError (a nil onError panics)
Finish(starts, sink) ==
    /\ started' = started \o starts
    /\ data' = NoFrame
    /\ cur' = NoCur
    /\ IF sink = <<>>
       THEN /\ pc' = "loop"
            /\ UNCHANGED <<errs, crash>>
       ELSE IF reg["onError"]
       THEN /\ pc' = "loop"
            /\ errs' = [errs EXCEPT ![0] = @ \o sink]
            /\ UNCHANGED crash
       ELSE /\ pc' = "panic"
            /\ crash' = "nil onError called"
            /\ UNCHANGED errs

\* what handleNotification does after the raw-event hook returned, and the
\* loop's report of the error it returns
Router(f, r, id, before) ==
    LET o == handleNotificationTyped(f, r, id)
    IN  Finish(before \o o.starts, IF o.err # "nil" THEN <<o.err>> ELSE o.sink)

\* handleMessage(data) and, when it returns an error, c.onError(err)
LoopHandle ==
    /\ Alive
    /\ pc = "handle"
    /\ LET o == handleMessage(data, reg, cur)
       IN  CASE o.then = "reconnect" ->
                    /\ started' = started \o o.starts
                    /\ Address' = Address + 1
                    /\ pc' = "redial"
                    /\ UNCHANGED <<data, cur, errs, crash>>
             [] o.then = "router" /\ reg["onRawEvent"] ->
                    /\ started' = started \o o.starts \o rawEventCall(data, cur)
                    /\ pc' = "rawhook"
                    /\ UNCHANGED <<Address, data, cur, errs, crash>>
             [] o.then = "router" /\ ~reg["onRawEvent"] ->
                    /\ Router(data, reg, cur, o.starts)
                    /\ UNCHANGED Address
             [] OTHER ->
                    /\ Finish(o.starts, IF o.err # "nil" THEN <<o.err>> ELSE <<>>)
                    /\ UNCHANGED Address
    /\ UNCHANGED <<ws, connected, ctx, reconnecting, reg, tr, rd, rt, result, nread, hpc,
                   hdata, cpc>>
    /\ envUnchanged

\* the raw-event hook, called on the loop's goroutine, returns
RawHookReturn ==
    /\ Alive
    /\ pc = "rawhook"
    /\ Router(data, reg, cur, <<>>)
    /\ UNCHANGED <<Address, ws, connected, ctx, reconnecting, reg, tr, rd, rt, result,
                   nread, hpc, hdata, cpc>>
    /\ envUnchanged

\* reconnect(): c.dial() on the loop's goroutine, then the handoff goroutine is started
LoopRedial ==
    /\ Alive
    /\ pc = "redial"
    /\ \/ /\ ~canceled
          /\ NextTransport \in Transports
          /\ tr' = [tr EXCEPT ![NextTransport] = "open"]
          /\ hpc' = [hpc EXCEPT ![NextTransport] = "read"]
          /\ pc' = "loop"
          /\ UNCHANGED <<errs, crash>>
       \/ /\ UNCHANGED <<tr, hpc>>
          /\ IF reg["onError"]
             THEN /\ errs' = [errs EXCEPT ![0] = Append(@, "could not dial to reconnect")]
                  /\ pc' = "loop"
                  /\ UNCHANGED crash
             ELSE /\ pc' = "panic"
                  /\ crash' = "nil onError called"
                  /\ UNCHANGED errs
    /\ data' = NoFrame
    /\ cur' = NoCur
    /\ UNCHANGED <<Address, ws, connected, ctx, reconnecting, reg, rd, rt, result, nread,
                   hdata, cpc, started>>
    /\ envUnchanged

(***************************************************************************)
(* The handoff goroutine of reconnect(), one per dialed reconnect target t *)
(* (its local ws).                                                         *)
(***************************************************************************)
\* what lines 233-246 give to c.onError for the outcome of ws.Read: nothing is
\* returned after a failed read or a failed parse, so the later checks run too
HandoffReports(readErr, f) ==
    (IF readErr THEN <<"reconnect failed: could not read">> ELSE <<>>)
    \o (IF parseBaseMessage(f).err # "nil" THEN <<"reconnect failed: could not parse">> ELSE <<>>)
    \o (IF parseBaseMessage(f).MessageType # "session_welcome"
        THEN <<"reconnect failed: no session_welcome first">> ELSE <<>>)

\* line 243: the handoff goes on only after a session_welcome
HandoffProceeds(f) == parseBaseMessage(f).MessageType = "session_welcome"

\* lines 233-246 for one outcome of the Read
HandoffFirst(t, readErr, f) ==
    LET reports == HandoffReports(readErr, f)
    IN  /\ hdata' = [hdata EXCEPT ![t] = f]
        /\ IF reports # <<>> /\ ~reg["onError"]
           THEN /\ crash' = "nil onError called"
                /\ hpc' = [hpc EXCEPT ![t] = "panic"]
                /\ UNCHANGED errs
           ELSE /\ errs' = [errs EXCEPT ![t] = @ \o reports]
                /\ hpc' = [hpc EXCEPT ![t] = IF HandoffProceeds(f) THEN "setflag" ELSE "aborted"]
                /\ UNCHANGED crash

\* a handoff that hands the session_welcome it read to the Welcome callback
HRead_Dispatches(t) ==
    /\ Alive
    /\ hpc[t] = "read"
    /\ tr[t] = "open"
    /\ ~canceled
    /\ rd' = [rd EXCEPT ![t] = @ + 1]
    /\ \E f \in FirstFrames :
          /\ HandoffFirst(t, FALSE, f)
          /\ started' = started \o (IF HandoffProceeds(f)
                                    THEN callFunc(reg, "onWelcome", [tr |-> t, idx |-> 1])
                                    ELSE <<>>)
    /\ UNCHANGED <<Address, ws, connected, ctx, reconnecting, reg, tr, pc, rt, data, cur,
                   result, nread, cpc>>
    /\ envUnchanged

\* ws.Read(c.ctx) returns a frame
HRead(t) ==
    /\ Alive
    /\ hpc[t] = "read"
    /\ tr[t] = "open"
    /\ ~canceled
    /\ rd' = [rd EXCEPT ![t] = @ + 1]
    /\ \E f \in FirstFrames : HandoffFirst(t, FALSE, f)
    /\ UNCHANGED <<Address, ws, connected, ctx, reconnecting, reg, tr, pc, rt, data, cur,
                   result, nread, cpc, started>>
    /\ envUnchanged

\* ws.Read(c.ctx) returns an error: data is nil
HReadError(t) ==
    /\ Alive
    /\ hpc[t] = "read"
    /\ ReadErrors(t) # {}
    /\ HandoffFirst(t, TRUE, Malformed)
    /\ UNCHANGED <<Address, ws, connected, ctx, reconnecting, reg, tr, rd, pc, rt, data,
                   cur, result, nread, cpc, started>>
    /\ envUnchanged

\* line 248
HSetFlag(t) ==
    /\ Alive
    /\ hpc[t] = "setflag"
    /\ reconnecting' = TRUE
    /\ hpc' = [hpc EXCEPT ![t] = "closeold"]
    /\ UNCHANGED <<Address, ws, connected, ctx, reg, tr, rd, pc, rt, data, cur, result,
                   nread, hdata, cpc, started, errs, crash>>
    /\ envUnchanged

\* a handoff that swaps without closing the old transport
HCloseOld_NoClose(t) ==
    /\ Alive
    /\ hpc[t] = "closeold"
    /\ hpc' = [hpc EXCEPT ![t] = "swap"]
    /\ UNCHANGED <<Address, ws, connected, ctx, reconnecting, reg, tr, rd, pc, rt, data,
                   cur, result, nread, hdata, cpc, started, errs, crash>>
    /\ envUnchanged

\* line 249: c.ws.Close(...), on whatever c.ws is now
HCloseOld(t) ==
    /\ Alive
    /\ hpc[t] = "closeold"
    /\ IF ws = Nil
       THEN /\ crash' = "handoff close on nil ws"
            /\ hpc' = [hpc EXCEPT ![t] = "panic"]
            /\ UNCHANGED tr
       ELSE /\ tr' = CloseTr(tr, ws)
            /\ hpc' = [hpc EXCEPT ![t] = "swap"]
            /\ UNCHANGED crash
    /\ UNCHANGED <<Address, ws, connected, ctx, reconnecting, reg, rd, pc, rt, data, cur,
                   result, nread, hdata, cpc, started, errs>>
    /\ envUnchanged

\* line 250; the send of line 251 then waits for the loop (LoopRecv)
HSwap(t) ==
    /\ Alive
    /\ hpc[t] = "swap"
    /\ ws' = t
    /\ hpc' = [hpc EXCEPT ![t] = "send"]
    /\ UNCHANGED <<Address, connected, ctx, reconnecting, reg, tr, rd, pc, rt, data, cur,
                   result, nread, hdata, cpc, started, errs, crash>>
    /\ envUnchanged

(***************************************************************************)
(* Close(), called by the application from a handler goroutine.            *)
(***************************************************************************)
\* what the loop is doing: blocked in a Read, between two Reads, or not running
LoopPhase ==
    CASE pc = "read" -> "read"
      [] pc \in {"loop", "handle", "rawhook", "redial", "wait"} -> "between"
      [] OTHER -> "off"

\* lines 165-168, for at most max calls; on a client that is not connected
\* only the deferred function is left to run ("noop")
CloseCallUpTo(max) ==
    /\ Alive
    /\ cpc = "idle"
    /\ pc # "idle"
    /\ ncloses < max
    /\ ncloses' = ncloses + 1
    /\ closeAt' = [phase |-> LoopPhase, handler |-> started # <<>>, handoff |-> Pending # {},
                   connected |-> connected]
    /\ IF ~connected
       THEN /\ cpc' = "noop"
            /\ UNCHANGED connected
       ELSE /\ connected' = FALSE
            /\ cpc' = "close"
    /\ UNCHANGED <<Address, ws, ctx, reconnecting, reg, tr, rd, canceled, pc, rt, data,
                   cur, result, nread, hpc, hdata, started, errs, crash>>

CloseCall == CloseCallUpTo(MaxCloses)

\* line 170: c.ws.Close(...), on whatever c.ws is now
CloseTransport ==
    /\ Alive
    /\ cpc = "close"
    /\ IF ws = Nil
       THEN /\ crash' = "Close on nil ws"
            /\ cpc' = "panic"
            /\ UNCHANGED tr
       ELSE /\ tr' = CloseTr(tr, ws)
            /\ cpc' = "defer"
            /\ UNCHANGED crash
    /\ UNCHANGED <<Address, ws, connected, ctx, reconnecting, reg, rd, pc, rt, data, cur,
                   result, nread, hpc, hdata, started, errs>>
    /\ envUnchanged

\* line 164, deferred
CloseReturn ==
    /\ Alive
    /\ cpc \in {"defer", "noop"}
    /\ ws' = Nil
    /\ cpc' = "idle"
    /\ UNCHANGED <<Address, connected, ctx, reconnecting, reg, tr, rd, pc, rt, data, cur,
                   result, nread, hpc, hdata, started, errs, crash>>
    /\ envUnchanged

(***************************************************************************)
(* The environment: the application cancels the context; the server ends   *)
(* a connection with a normal-closure frame, or the connection breaks.     *)
(* Only a Read observes the end of a connection, so it is taken when a     *)
(* Read is pending on the transport.                                       *)
(***************************************************************************)
Cancel ==
    /\ Alive
    /\ ctx = "ctx"
    /\ ~canceled
    /\ canceled' = TRUE
    /\ UNCHANGED <<Address, ws, connected, ctx, reconnecting, reg, tr, rd, pc, rt, data,
                   cur, result, nread, hpc, hdata, cpc, ncloses, closeAt,
                   started, errs, crash>>

ServerEnds(t, how) ==
    /\ Alive
    /\ tr[t] = "open"
    /\ (pc = "read" /\ rt = t) \/ hpc[t] = "read"
    /\ tr' = [tr EXCEPT ![t] = how]
    /\ UNCHANGED <<Address, ws, connected, ctx, reconnecting, reg, rd, canceled, pc, rt,
                   data, cur, result, nread, hpc, hdata, cpc, ncloses, closeAt,
                   started, errs, crash>>

\* a handler fails: callFunc's `go f(v)` has no recover, and the raw-event hook
\* runs on the loop's goroutine, so the panic of a handler ends the process
HandlerPanics ==
    /\ Alive
    /\ started # <<>>
    /\ crash' = "handler panic"
    /\ UNCHANGED <<Address, ws, connected, ctx, reconnecting, reg, tr, rd, canceled, pc, rt,
                   data, cur, result, nread, hpc, hdata, cpc, ncloses, closeAt,
                   started, errs>>

(***************************************************************************)
(* Specifications.                                                         *)
(***************************************************************************)
\* the callbacks the lifecycle specification registers
LifeHandlers == {"onWelcome", "onError", "onReconnect"}

LoopStep ==
    \/ LoopBeginRead
    \/ LoopReadError
    \/ LoopHandle
    \/ LoopRedial
    \/ \E t \in Transports : LoopRecv(t)

HandoffStep ==
    \/ \E t \in Transports : HRead(t)
    \/ \E t \in Transports : HSetFlag(t)
    \/ \E t \in Transports : HCloseOld(t)
    \/ \E t \in Transports : HSwap(t)

CloseStep ==
    \/ CloseTransport
    \/ CloseReturn

\* the connection lifecycle: the loop, the handoff goroutines, Close and cancellation
Next ==
    \/ \E h \in LifeHandlers, v \in BOOLEAN : Setter(h, v)
    \/ Connect
    \/ LoopReadFrame(LifeFrames, MaxFrames)
    \/ LoopStep
    \/ HandoffStep
    \/ \E t \in Transports : HReadError(t)
    \/ CloseCall
    \/ CloseStep
    \/ Cancel

Spec == Init /\ [][Next]_vars

\* the goroutines are scheduled fairly; frames, Close calls and cancellation
\* need not come
FairSpec ==
    /\ Spec
    /\ WF_vars(LoopStep)
    /\ WF_vars(HandoffStep)
    /\ WF_vars(\E t \in Transports : HReadError(t))
    /\ WF_vars(CloseStep)

\* the lifecycle with a server that may end a connection
NextServer ==
    \/ Next
    \/ \E t \in Transports, how \in {"rclosed", "failed"} : ServerEnds(t, how)

SpecServer == Init /\ [][NextServer]_vars

\* the lifecycle with an application that calls Close once more
NextClose ==
    \/ \E h \in LifeHandlers, v \in BOOLEAN : Setter(h, v)
    \/ Connect
    \/ LoopReadFrame(LifeFrames, MaxFrames)
    \/ LoopStep
    \/ HandoffStep
    \/ CloseCallUpTo(MaxCloses + 1)
    \/ CloseStep

SpecClose == Init /\ [][NextClose]_vars

\* the dispatch of every kind of frame under every registration
NextDispatch ==
    \/ \E h \in HandlerNames, v \in BOOLEAN : Setter(h, v)
    \/ Connect
    \/ LoopReadFrame(AllFrames, DispatchFrames)
    \/ LoopStep
    \/ RawHookReturn
    \/ HandoffStep

SpecDispatch == Init /\ [][NextDispatch]_vars

\* the dispatch with handlers that may fail
NextHandlers ==
    \/ NextDispatch
    \/ HandlerPanics

SpecHandlers == Init /\ [][NextHandlers]_vars

(***************************************************************************)
(* Properties.                                                             *)
(***************************************************************************)
Handoffs == {t \in Transports : hpc[t] # "none"}

\* handoff goroutine t has executed the swap of line 250
Swapped(t) == hpc[t] \in {"send", "done"}

\* t is the only reconnect target so far and Close was never called
OnlyHandoff(t) == Handoffs = {t} /\ ncloses = 0

\* the handler invocations made for frame id
StartsOf(log, id) == SelectSeq(log, LAMBDA e : e.tr = id.tr /\ e.idx = id.idx)

\* the names of the handlers of a log
Names(log) == [i \in 1..Len(log) |-> log[i].h]

\* C1: after a session_reconnect and a session_welcome as first frame of the new
\* transport (no Close, no second reconnect), once the handoff has swapped: every
\* other transport is closed and c.ws is the new one; every frame the loop reads
\* from then on is read from the new transport; no frame is dispatched twice, and
\* no frame of the old transport is dispatched after a frame of the new one.
C1_HandoffSwitchesTransport ==
    /\ [](\A t \in Transports :
            Swapped(t) /\ OnlyHandoff(t) =>
                /\ ws = t
                /\ \A u \in Dialed \ {t} : tr[u] # "open"
                /\ \A i, j \in 1..Len(started) :
                      i < j =>
                        /\ ~(started[i].tr = t /\ started[j].tr # t)
                        /\ started[i] # started[j])
    /\ [][\A t \in Transports :
            Swapped(t) /\ OnlyHandoff(t) /\ nread' = nread + 1 => rt = t]_vars

\* C1 witness: the handoff is complete and the loop handles a frame it read from
\* the new transport
C1_Witness ==
    \E t \in Transports :
        /\ hpc[t] = "done"
        /\ OnlyHandoff(t)
        /\ pc = "handle"
        /\ cur.tr = t
        /\ \E u \in Dialed \ {t} : tr[u] = "closed"

\* C2: a handoff whose first frame is not session_welcome never sets
\* reconnecting, never closes a transport and never changes c.ws: it returns
\* (line 245) after at least one report to the error sink, its step leaves c.ws,
\* reconnecting, every transport and the loop as they were, and the process
\* lives on, the loop still on the original transport.
C2_NoWelcomeNoSwap ==
    /\ [](\A t \in Transports :
            hdata[t] # NoFrame /\ parseBaseMessage(hdata[t]).MessageType # "session_welcome" =>
                /\ hpc[t] = "aborted"
                /\ Len(errs[t]) >= 1)
    /\ [][\A t \in Transports :
            /\ hpc[t] = "read" /\ hpc'[t] # "read" /\ ~HandoffProceeds(hdata'[t]) =>
                  /\ UNCHANGED <<ws, reconnecting, tr, connected, pc, rt>>
                  /\ crash' = "none"
            /\ hpc[t] = "aborted" => hpc'[t] = "aborted"]_vars

\* Close was called while the loop was blocked in a Read and has returned with
\* the loop still blocked in a Read (an error sink being registered)
ClosedWhileReading ==
    /\ closeAt.phase = "read"
    /\ cpc = "idle"
    /\ pc = "read"
    /\ reg["onError"]

\* C3: if Close is called, and returns, while the loop is blocked in a Read,
\* with or without a handoff in progress, ConnectWithContext eventually
\* returns nil.
C3_CloseEndsLoop ==
    ClosedWhileReading ~> (pc = "returned" /\ result = "nil")

\* every goroutine of the client has come to its end
Quiescent ==
    /\ pc = "returned"
    /\ cpc = "idle"
    /\ \A t \in Transports : hpc[t] \in {"none", "done", "aborted"}

\* C4: once a Close that was called while a handoff was pending has returned
\* (and as long as the process has not panicked): the client is not connected,
\* the loop is not blocked reading an open reconnect target, and when every
\* goroutine has ended every transport is closed.
C4_CloseAbortsHandoff ==
    (closeAt.handoff /\ cpc = "idle" /\ crash = "none") =>
        /\ ~connected
        /\ ~(pc = "read" /\ rt \in Handoffs /\ tr[rt] = "open")
        /\ Quiescent => \A t \in Dialed : tr[t] # "open"

\* C5: when Close is called after a handler was started, at whatever moment of
\* the loop, neither the loop nor a handoff goroutine calls Read or Close on a
\* nil c.ws.
C5_NoNilTransportUse ==
    closeAt.handler => crash \notin {"loop read on nil ws", "handoff close on nil ws"}

\* C6: ConnectWithContext without a Welcome callback returns ErrNilOnWelcome in
\* one step that leaves every field and every transport as it was; nothing is
\* dialed or read afterwards.
C6_NilOnWelcome ==
    /\ [][pc = "idle" /\ pc' # "idle" /\ ~reg["onWelcome"] =>
            /\ pc' = "returned"
            /\ result' = "ErrNilOnWelcome"
            /\ UNCHANGED <<Address, ws, connected, ctx, reconnecting, reg, tr, rd, nread,
                           hpc, started, errs>>]_vars
    /\ [](result = "ErrNilOnWelcome" =>
            /\ Dialed = {}
            /\ ws = Nil
            /\ ~connected
            /\ ctx = "nil"
            /\ nread = 0)

\* C6 witness: the call returned the configuration error
C6_Witness ==
    /\ pc = "returned"
    /\ result = "ErrNilOnWelcome"
    /\ ~reg["onWelcome"]
    /\ Dialed = {}

\* the loop's step ends the handling of the frame in data
Completes == pc \in {"handle", "rawhook"} /\ pc' \notin {"handle", "rawhook"}

\* a frame with a known discriminant that decodes into its message variant
WellFormed(f) == f.parse /\ f.mtype \in DOMAIN messageTypeMap /\ f.payload

\* the callback the registration surface offers for each discriminant
KindHandler ==
    [k \in {"session_welcome", "session_keepalive", "notification", "session_reconnect",
            "revocation"} |->
        CASE k = "session_welcome" -> "onWelcome"
          [] k = "session_keepalive" -> "onKeepAlive"
          [] k = "notification" -> "onNotification"
          [] k = "session_reconnect" -> "onReconnect"
          [] k = "revocation" -> "onRevoke"]

\* the message-kind callback of frame f, started once when it is registered
Expected(f) == IF reg[KindHandler[f.mtype]] THEN <<KindHandler[f.mtype]>> ELSE <<>>

C8_UnknownMessageType ==
    [][pc = "handle" /\ pc' # "handle" /\ data.parse
        /\ data.mtype \notin DOMAIN messageTypeMap =>
            /\ started' = started
            /\ errs' = [errs EXCEPT ![0] = Append(@, "unknown message type")]
            /\ pc' = "loop"
            /\ crash' = "none"]_vars

\* a notification frame that decodes and whose subscription type has no entry
\* in subMetadata
UnmappedNotification(f) ==
    WellFormed(f) /\ f.mtype = "notification" /\ ~subLookup(f.sub).ok

\* C9: for such a frame the error sink gets a report and no handler at all is
\* invoked for it, neither the top-level Notification handler, nor the
\* raw-event hook, nor a typed event handler; the loop continues.
C9_UnmappedFiresNothing ==
    [][Completes /\ UnmappedNotification(data) =>
            /\ StartsOf(started', cur) = <<>>
            /\ errs' = [errs EXCEPT ![0] = Append(@, "unknown subscription type")]
            /\ pc' = "loop"]_vars

\* the invocations of the raw-event hook in a log
RawCalls(log) == SelectSeq(log, LAMBDA e : e.h = "onRawEvent")

\* C10 as stated: a registered raw-event hook is invoked exactly once, with the
\* event's bytes, for every notification frame that decodes.
C10_RawHookEveryNotification ==
    [][Completes /\ WellFormed(data) /\ data.mtype = "notification" /\ reg["onRawEvent"] =>
            /\ Len(RawCalls(StartsOf(started', cur))) = 1
            /\ RawCalls(StartsOf(started', cur))[1].arg = MarshalJSON(data.event)]_vars

\* C10 amended: a registered raw-event hook is invoked exactly once, with the
\* event's bytes, for every notification frame that decodes and whose
\* subscription type has an entry in subMetadata, whether or not the entry has a
\* typed decode target and whether or not the typed decode succeeds; for a
\* subscription type without an entry it is not invoked.
C10_RawHookEveryMappedNotification ==
    [][Completes /\ WellFormed(data) /\ data.mtype = "notification" /\ reg["onRawEvent"] =>
            LET calls == RawCalls(StartsOf(started', cur))
            IN  IF subLookup(data.sub).ok
                THEN /\ Len(calls) = 1
                     /\ calls[1].arg = MarshalJSON(data.event)
                ELSE calls = <<>>]_vars

\* C10 witness: the hook is running for a notification whose subscription type
\* has no typed decode target
C10_Witness ==
    /\ pc = "rawhook"
    /\ data.sub = "untyped.subscription"
    /\ data.event = "valid"
    /\ RawCalls(StartsOf(started, cur)) =
          <<[h |-> "onRawEvent", tr |-> cur.tr, idx |-> cur.idx, arg |-> "valid"]>>

\* C11: between two Reads the loop always has a step of its own to take,
\* whatever handler has been invoked and has not returned: it never waits for
\* the return of a handler (an outer message handler, a typed event handler or
\* the raw-event hook).
C11_LoopNeverWaitsForHandler ==
    Alive /\ pc \in {"loop", "handle", "rawhook", "redial"} => ENABLED LoopStep

\* the handler invocations a step adds to the log
Added == SubSeq(started', Len(started) + 1, Len(started'))

\* C12: the loop reads a frame only when it is handling none, each frame read
\* is the next one of the transport the Read was issued on and has had no
\* handler started yet; the log of handler starts only grows at its end, and
\* only by invocations for the frame the loop is handling, the last one read;
\* so handlers are started in the order their frames were read, on one
\* transport and across a swap.
C12_StartsInWireOrder ==
    /\ [][nread' # nread =>
            /\ nread' = nread + 1
            /\ pc = "read" /\ data = NoFrame /\ cur = NoCur
            /\ cur' = [tr |-> rt, idx |-> rd[rt] + 1]
            /\ rd' = [rd EXCEPT ![rt] = @ + 1]
            /\ StartsOf(started, cur') = <<>>]_vars
    /\ [][started' # started =>
            /\ Len(started') > Len(started)
            /\ SubSeq(started', 1, Len(started)) = started
            /\ pc \in {"handle", "rawhook"}
            /\ StartsOf(Added, cur) = Added]_vars
    /\ [](\A i, j \in 1..Len(started) :
            i < j /\ started[i].tr = started[j].tr => started[i].idx <= started[j].idx)

\* C12 witness: handlers were started for a frame of the first transport and
\* then, after a swap, for a frame of the second, in that order
C12_Witness ==
    /\ Len(started) = 2
    /\ started[1].tr = 1
    /\ started[2].tr = 2
    /\ hpc[2] = "done"
    /\ ws = 2

\* the loop is handling a frame, or dialing for a session_reconnect
Handling == pc \in {"handle", "rawhook", "redial"}

\* C13: ConnectWithContext returns only nil, ErrNilOnWelcome or a transport
\* failure of the dial or of a Read; whatever else goes wrong while a frame is
\* handled (envelope or payload decode error, unknown message or event type,
\* failed reconnect dial) or in a handoff (first frame unreadable or not
\* session_welcome) goes to the error sink: the call does not return, the
\* process lives on and the loop is back at its Read.
C13_OnlyFatalErrorsReturn ==
    /\ [](result \in {"none", "nil", "ErrNilOnWelcome", "could not dial",
                      "could not read message"})
    /\ [][Handling /\ ~Handling' =>
            /\ pc' = "loop"
            /\ result' = result
            /\ crash' = "none"
            /\ Len(errs'[0]) >= Len(errs[0])]_vars
    /\ [][\A t \in Transports :
            hpc[t] = "read" /\ hpc'[t] # "read" /\ ~HandoffProceeds(hdata'[t]) =>
                /\ Len(errs'[t]) > Len(errs[t])
                /\ crash' = "none"
                /\ UNCHANGED <<pc, result>>]_vars

\* the context was cancelled while the loop (dial done) was running
CanceledWhileRunning == canceled /\ pc \notin {"idle", "returned"}

\* C14: once the context is cancelled while the loop runs, with or without a
\* handoff pending, ConnectWithContext eventually returns nil (as long as Close
\* is not called too).
C14_CancelReturnsNil ==
    CanceledWhileRunning ~> ((pc = "returned" /\ result = "nil") \/ ncloses > 0)

\* C15: a Read failure makes ConnectWithContext return nil only after
\* cancellation or when the transport read was closed by this client (Close, or
\* a handoff closing the old transport); when the server closed or broke the
\* transport the Read failure ends the loop with an error.
C15_NilOnlyForLocalClosure ==
    /\ [][pc = "read" /\ pc' = "returned" /\ result' = "nil" =>
            canceled \/ tr[rt] = "closed"]_vars
    /\ [][pc = "read" /\ pc' # "read" /\ ~canceled /\ tr[rt] \in {"rclosed", "failed"} =>
            /\ pc' = "returned"
            /\ result' = "could not read message"]_vars

\* C16: a Close that finds the client not connected performs no transport
\* operation and changes no field of the client.  (Close leaves the client not
\* connected, so the second of two calls in a row is such a call: this is also
\* what makes two calls leave what one call leaves.)
C16_CloseIdempotent ==
    /\ [][cpc = "idle" /\ cpc' # "idle" /\ ~connected => cpc' = "noop"]_vars
    /\ [][cpc = "noop" /\ cpc' # "noop" =>
            /\ cpc' = "idle"
            /\ UNCHANGED <<Address, ws, connected, reconnecting, tr>>]_vars

\* Close, called on a connected client, has returned
Closed == closeAt.connected /\ cpc = "idle"

\* C17: once Close, called on a connected client, has returned, no step marks the
\* client connected, dials a transport, makes another transport the active
\* one, or reads another frame for dispatch.
C17_ClosedIsTerminal ==
    [][Closed =>
        /\ ~connected'
        /\ Dialed' = Dialed
        /\ ws' \in {ws, Nil}
        /\ nread' = nread]_vars

\* from the successful initial dial until the connection is torn down by Close
\* or the loop has ended
InSession == connected /\ pc \notin {"idle", "returned", "panic"}

\* C18: in a session c.ws is a dialed transport and the only transport the loop
\* can get a frame from (a Read still pending on another transport is one on a
\* transport already closed); the only step that changes c.ws is the swap of a
\* handoff whose first frame was session_welcome.
C18_OneActiveTransport ==
    /\ [](InSession =>
            /\ ws \in Dialed
            /\ pc = "read" /\ rt # ws => tr[rt] # "open")
    /\ [][InSession /\ ws' # ws =>
            /\ ws' \in Dialed
            /\ hpc[ws'] = "swap" /\ hpc'[ws'] = "send"
            /\ parseBaseMessage(hdata[ws']).MessageType = "session_welcome"]_vars

\* C19: the send of every handoff goroutine that got session_welcome is
\* eventually met by a receive of the loop (as long as the process lives and
\* ConnectWithContext has not returned), and the signal the loop receives is
\* that of the handoff whose transport is the active one.
C19_SignalConsumedOnce ==
    /\ \A t \in Transports :
          (hpc[t] = "send") ~> (hpc[t] = "done" \/ ~Alive \/ pc = "returned")
    /\ [][\A t \in Transports : hpc[t] = "send" /\ hpc'[t] = "done" => ws = t]_vars

\* the loop runs and every reconnect so far has failed: no reconnect is being
\* handled, and every handoff goroutine returned without a session_welcome
AllReconnectsFailed ==
    /\ pc \in {"loop", "read", "wait"}
    /\ \A t \in Handoffs : hpc[t] = "aborted"

\* C20: as long as every reconnect has failed (the dial failed, or the first
\* frame of the new transport was not session_welcome), Address is the address
\* given at construction, reconnecting is unset and, Close not having been
\* called, the first transport is the active one and the client is connected.
C20_FailedReconnectLosesNothing ==
    AllReconnectsFailed =>
        /\ Address = 0
        /\ ~reconnecting
        /\ ncloses = 0 => ws = 1 /\ connected

\* C21: after a handler has failed the loop, between two Reads, still has its
\* next step to take: the failure of a handler does not end the loop.
C21_HandlerFailureSpared ==
    crash = "handler panic" /\ pc \in {"loop", "handle", "redial"} => ENABLED LoopStep

\* the transports that are open
OpenTransports == {t \in Transports : tr[t] = "open"}

\* C22: a handoff goroutine that gave up has closed the transport it was given,
\* so that with no reconnect under way (none being dialed, no handoff goroutine
\* running) at most one transport is open.
C22_AbortDiscardsTransport ==
    /\ \A t \in Transports : hpc[t] = "aborted" => tr[t] # "open"
    /\ Pending = {} /\ pc # "redial" => Cardinality(OpenTransports) <= 1

\* C23: the step that completes the dial of a reconnect target is not a step of
\* the read loop: it leaves the loop where it is, free to read the next frame of
\* the old transport while the dial is under way.
C23_DialOffTheLoop ==
    [][pc # "idle" /\ Dialed' # Dialed => pc' = pc]_vars

\* C24: as long as a handoff goroutine has not delivered its signal, the one
\* frame it read is the only frame read from its transport, and the loop has a
\* Read on a reconnect target only when that target's signal has been received.
C24_LoopReadsAfterSignal ==
    /\ \A t \in Transports :
          hpc[t] \in {"setflag", "closeold", "swap", "send"} => rd[t] = 1
    /\ \A t \in Handoffs : pc = "read" /\ rt = t => hpc[t] = "done"

\* C25: a handoff goroutine that gave up has reported exactly one error,
\* whether the Read failed, the first frame did not parse or it was not
\* session_welcome.
C25_AbortReportsOnce ==
    \A t \in Transports : hpc[t] = "aborted" => Len(errs[t]) = 1

\* C26: a callback that is cleared is never invoked, and with the error sink
\* cleared the handling of a frame still ends with the loop back at its Read:
\* what would have been reported is dropped, the process lives on and the call
\* does not return.
C26_ClearedCallbackIsNoOp ==
    /\ [][\A i \in 1..Len(Added) : reg[Added[i].h]]_vars
    /\ [][Handling /\ ~Handling' /\ ~reg["onError"] =>
            /\ pc' = "loop"
            /\ crash' = "none"
            /\ result' = result]_vars

\* a notification whose subscription type has a mapping entry without a typed
\* decode target
UntypedNotification(f) ==
    /\ WellFormed(f)
    /\ f.mtype = "notification"
    /\ subLookup(f.sub).ok
    /\ subLookup(f.sub).metadata.EventGen = "nil"

\* C27: the handling of such a notification reports nothing to the error sink,
\* and a registered raw-event hook is invoked for it, once.
C27_UntypedNotificationSilent ==
    [][Handling /\ ~Handling' /\ UntypedNotification(data) =>
            /\ errs' = errs
            /\ crash' = "none"
            /\ reg["onRawEvent"] => Len(RawCalls(StartsOf(started', cur))) = 1]_vars

\* C28: no handler is ever started for the first frame of a reconnect target,
\* the frame its handoff goroutine reads; the step in which a handoff goroutine
\* gets that frame starts nothing; and the Welcome callback is started only by
\* the loop, for the session_welcome frame it is handling.
C28_HandoffWelcomeNotDispatched ==
    /\ [](\A i \in 1..Len(started) : ~(started[i].tr \in Handoffs /\ started[i].idx = 1))
    /\ [][(\E t \in Transports : hpc[t] = "read" /\ hpc'[t] # "read") =>
            started' = started]_vars
    /\ [][\A i \in 1..Len(Added) : Added[i].h = "onWelcome" =>
            /\ pc = "handle"
            /\ data.mtype = "session_welcome"
            /\ Added[i].tr = cur.tr /\ Added[i].idx = cur.idx]_vars

\* a handoff has completed on session_welcome with the Welcome callback
\* registered, and the only handler started is that of the session_reconnect
C28_Witness ==
    /\ reg["onWelcome"]
    /\ \E t \in Transports :
          /\ hpc[t] = "done"
          /\ parseBaseMessage(hdata[t]).MessageType = "session_welcome"
    /\ Names(started) = <<"onReconnect">>

\* two session_reconnect frames came on the first transport, so the second was
\* handled before the first handoff had completed, and the goroutines of both
\* handoffs got session_welcome and swapped; Close was not called
BothHandedOff ==
    /\ rd[1] = 2
    /\ Handoffs = {2, 3}
    /\ Swapped(2) /\ Swapped(3)
    /\ ncloses = 0

\* C29: then c.ws is the transport dialed for the later frame and every other
\* transport is closed; and once the loop has its Read on the open active
\* transport, both handoff goroutines have delivered their signal and ended.
C29_OverlappingHandoffsSettle ==
    /\ BothHandedOff =>
          /\ ws = 3
          /\ \A u \in Dialed \ {3} : tr[u] # "open"
    /\ BothHandedOff /\ pc = "read" /\ rt = ws /\ tr[rt] = "open" =>
          hpc[2] = "done" /\ hpc[3] = "done"

\* C30: once ConnectWithContext has returned from its loop, whether on
\* cancellation, on a closure or on a failed Read, the client is not marked
\* connected and none of the transports it dialed is open.
C30_ReturnedIsDisconnected ==
    pc = "returned" /\ Dialed # {} =>
        /\ ~connected
        /\ \A t \in Dialed : tr[t] # "open"

\* handoff goroutine t has set c.reconnecting (line 248) and its send of line
\* 251 has not been received yet
PendingSender(t) == hpc[t] \in {"closeold", "swap", "send"}

\* C31: while the process runs, a set reconnecting flag has a handoff goroutine
\* that set it and has not completed its send; and whenever the loop waits for
\* the signal (line 147) there is such a goroutine, running, to deliver it.
C31_WaitIsAnswered ==
    /\ Alive /\ reconnecting => \E t \in Transports : PendingSender(t)
    /\ pc = "wait" => Alive /\ \E t \in Transports : PendingSender(t)

====
